---- MODULE Spec2Model ----
(***************************************************************************)
(* GakeTokenMonitor (src/functions/gakeAnalysis.py): the monitor's         *)
(* start/stop state machine, the cycle-driver threads running              *)
(* _monitoring_loop, the two snapshot generations guarded by               *)
(* snapshot_lock, the price comparison and the address-profiling worker    *)
(* pool of _analyze_suspicious_activity (specification Spec).              *)
(*                                                                         *)
(* The functions of the analysis that depend on their arguments only are   *)
(* followed on inputs drawn by the initial state, each in a specification  *)
(* of its own: the price comparison of _check_price_changes in Python      *)
(* floats (DetectorSpec); one candidate's way from the comparison through  *)
(* _analyze_suspicious_activity, with the provider results that            *)
(* AddressAnalyzer.analyze_address_trading_profile builds the profiles     *)
(* from, to the callback (AnalysisSpec); and the screening test of         *)
(* TopTradedTokenHolderAnalyzer._check_qualification                       *)
(* (src/functions/topTradedTokenHolderAnalysis.py) on one analysis result  *)
(* (QualifierSpec).                                                        *)
(*                                                                         *)
(* Time is counted in seconds: Tick advances it to the next expiry of a     *)
(* running sleep or join.  A step that calls a provider, runs the callback *)
(* or waits for the lock or the workers takes an arbitrary amount of time  *)
(* (any number of Ticks may overtake it); a step that only computes takes  *)
(* none (no Tick while a thread stands before it).                         *)
(***************************************************************************)
EXTENDS Integers, Sequences, FiniteSets

\* ------------------------------------------------------------------ bounds
\* Cycle-driver threads that can be alive at once (a finished thread's slot
\* is taken again by the next start_monitoring).
MaxThreads == 2
\* Token identities the feed can return.
MaxTokens == 2
\* Trader addresses the trade-history provider can return for a candidate.
MaxAddrs == 1
\* Snapshot rotations (values of the clock) the model follows.
MaxCycles == 3
\* suspicious_criteria['min_suspicious_addresses'] as configured.
MinSuspiciousAddresses == 1
\* Trader addresses get_token_trading_addresses can return when one
\* candidate's analysis is followed on its own.
MaxTraders == 3
\* Bits of a float's significand (53 in a Python float; 9 rounds 1.2 and the
\* quotients below to the same side as 53 does).
MantissaBits == 9

\* ------------------------------------------------------- program constants
JoinTimeout == 5
SnapshotInterval == 20
BackoffSeconds == 60
PriceIncreaseThreshold == 20
MaxTxCount == 50
MaxWorkers == 5
\* min_addresses of the call of _find_common_tokens_with_count.
MinCommonAddresses == 3
\* The least total value of a common holding (TokenHolderAnalyzer keeps
\* what lies above it).
MinCommonValue == 10000

Threads == 1..MaxThreads
Tokens == 1..MaxTokens
Addrs == 1..MaxAddrs
\* Prices the feed reports: a base price, and the base price raised by
\* exactly the threshold (whole numbers).
PriceSet == {10, 12}
\* Decimal prices, in tenths, for the price comparison on its own: none or
\* a negative one, 1.0, and 1.0 raised by the threshold and by more.
DecimalPrices == {-10, 0, 10, 12, 13}
\* Transaction counts on both sides of max_tx_count.
TxCounts == {MaxTxCount - 1, MaxTxCount}

\* None, for the thread, callback and candidate references.
None == 0
\* An empty dict.
EmptyMap == [k \in {} |-> 0]
\* The callbacks a caller can register (None or a function).
Callbacks == {None, 1}

VARIABLES
  is_running,          \* self.is_running
  monitor_thread,      \* self.monitor_thread: None or a thread
  callback,            \* self.callback
  previous_snapshots,  \* contract_address -> snapshot
  current_snapshots,   \* contract_address -> snapshot
  snapshot_lock,       \* None, or the thread holding self.snapshot_lock
  now,                 \* datetime.now(), read at each rotation
  callerPc,            \* the calling (bot) thread: "idle" or "joining"
  joinLeft,            \* seconds left of monitor_thread.join(timeout=5)
  lastReturn,          \* what the caller's last call returned (FALSE during a call)
  pc,                  \* each cycle-driver thread's position ("off": no live thread)
  has_tokens,          \* _monitoring_loop: the truth value of its local tokens
  feed_failed,         \* _fetch_qualified_tokens caught an exception this cycle
  sinkLog,             \* outcomes of the callback invocations of the cycle
  common_addresses,    \* _check_price_changes: tokens still to compare
  alerts,              \* _check_price_changes' alerts / the loop's alerts
  sleepLeft,           \* seconds left of the thread's time.sleep
  candidate,           \* _analyze_suspicious_activity's token
  unsubmitted,         \* trading_addresses not yet submitted to the pool
  queued,              \* submitted tasks no worker has taken yet
  running,             \* tasks a worker thread is executing
  results,             \* finished futures: address -> profile or None
  detector,            \* one call of _check_price_changes on a given store
  analysis,            \* one candidate from the comparison to the callback
  qualifier,           \* one call of _check_qualification
  cluster,             \* one call of TokenHolderAnalyzer._analyze_clusters
  rotation,            \* a cycle-driver thread rotating the snapshots beside a get_status call
  starters,            \* bot handler threads inside start_gake_monitoring
  rape,                \* RapeAnalysisManager and its analysis thread
  collect,             \* one call of _analyze_suspicious_activity, future by future
  holdings,            \* one holder analysis from _analyze_common_holdings to _check_qualification
  sessions             \* the session pool of a crawler and the callers that use it

vars == <<is_running, monitor_thread, callback, previous_snapshots,
          current_snapshots, snapshot_lock, now, callerPc, joinLeft, lastReturn,
          pc, has_tokens, feed_failed, sinkLog, common_addresses, alerts,
          sleepLeft, candidate, unsubmitted, queued, running, results,
          detector, analysis, qualifier,
          cluster,
          rotation,
          starters,
          rape,
          collect,
          holdings,
          sessions>>

monitorVars == <<is_running, monitor_thread, callback>>
storeVars == <<previous_snapshots, current_snapshots>>
callerVars == <<callerPc, joinLeft, lastReturn>>
poolVars == <<candidate, unsubmitted, queued, running, results>>
localVars == <<has_tokens, feed_failed, sinkLog, common_addresses, alerts>>
\* The state of the functions followed on their own.
pureVars ==
  <<detector, analysis, qualifier, cluster, rotation, starters, rape, collect, holdings, sessions>>
\* The state of the monitor, its threads and its caller.
programVars == <<monitorVars, storeVars, snapshot_lock, now, callerVars, pc,
                 localVars, sleepLeft, poolVars>>
\* Such a function is not being followed.
Idle == [pc |-> "idle"]
\* What the steps of each such function leave alone.
exceptDetector == <<programVars, analysis, qualifier, cluster, rotation,
   starters,
   rape,
   collect,
   holdings,
   sessions>>
exceptAnalysis == <<programVars, detector, qualifier, cluster, rotation,
   starters,
   rape,
   collect,
   holdings,
   sessions>>
exceptQualifier == <<programVars, detector, analysis, cluster, rotation,
   starters,
   rape,
   collect,
   holdings,
   sessions>>
exceptCluster == <<programVars, detector, analysis, qualifier, rotation,
   starters,
   rape,
   collect,
   holdings,
   sessions>>
exceptRotation == <<programVars, detector, analysis, qualifier, cluster,
   starters,
   rape,
   collect,
   holdings,
   sessions>>
exceptStarters ==
  <<programVars, detector, analysis, qualifier, cluster, rotation,
   rape,
   collect,
   holdings,
   sessions>>
exceptRape ==
  <<programVars, detector, analysis, qualifier, cluster, rotation, starters,
   collect,
   holdings,
   sessions>>
exceptCollect ==
  <<programVars, detector, analysis, qualifier, cluster, rotation, starters, rape,
   holdings,
   sessions>>
exceptHoldings ==
  <<programVars, detector, analysis, qualifier, cluster, rotation, starters, rape, collect,
   sessions>>
exceptSessions ==
  <<programVars, detector, analysis, qualifier, cluster, rotation, starters, rape, collect, holdings>>

\* ----------------------------------------------------------------- helpers
Min(S) == CHOOSE x \in S : \A y \in S : x <= y

\* threading.Thread.is_alive()
IsAlive(t) == t # None /\ pc[t] # "off"

\* What _fetch_qualified_tokens can return: the qualifying tokens with their
\* prices (possibly none).
FeedResults == UNION {[S -> PriceSet] : S \in SUBSET Tokens}

\* What get_token_trading_addresses can return, duplicates removed: the
\* first n addresses, for each n (which addresses trade makes no difference).
TraderSets == {1..n : n \in 0..MaxAddrs}

\* What _analyze_address_profile can return for one address (ok = FALSE:
\* None, the profiling raised).
ProfileResults == {[ok |-> FALSE, transaction_count_7d |-> 0, transaction_count_30d |-> 0]}
  \cup {[ok |-> TRUE, transaction_count_7d |-> a, transaction_count_30d |-> MaxTxCount] :
          a \in TxCounts}

\* ------------------------------------------------------------ Python floats
\* A float is <<m, e>>, the number m * 2^e, |m| < 2^MantissaBits.
Abs(x) == IF x < 0 THEN -x ELSE x

\* a / d scaled into [2^(MantissaBits-1), 2^MantissaBits) by a power of two.
RECURSIVE FloatScale(_, _, _)
FloatScale(a, d, e) ==
  IF a >= (2 ^ MantissaBits) * d THEN FloatScale(a, 2 * d, e + 1)
  ELSE IF a < (2 ^ (MantissaBits - 1)) * d THEN FloatScale(2 * a, d, e - 1)
  ELSE <<a, d, e>>

\* The float nearest to n / d (d > 0), ties to the even significand: what
\* float() gives for a decimal and what each float operation gives for its
\* exact result.
Float(n, d) ==
  IF n = 0 THEN <<0, 0>>
  ELSE LET s == FloatScale(Abs(n), d, 0)
           q == s[1] \div s[2]
           r == s[1] % s[2]
           m == IF 2 * r > s[2] \/ (2 * r = s[2] /\ q % 2 = 1) THEN q + 1 ELSE q
       IN  <<(IF n < 0 THEN -m ELSE m), s[3]>>

\* The float x as the fraction FloatNum(x) / FloatDen(x).
FloatNum(x) == IF x[2] >= 0 THEN x[1] * (2 ^ x[2]) ELSE x[1]
FloatDen(x) == IF x[2] >= 0 THEN 1 ELSE 2 ^ (-x[2])

\* x - y, x / y (y > 0) and x * k for an integer k.
FloatSub(x, y) ==
  Float(FloatNum(x) * FloatDen(y) - FloatNum(y) * FloatDen(x), FloatDen(x) * FloatDen(y))
FloatDiv(x, y) == Float(FloatNum(x) * FloatDen(y), FloatDen(x) * FloatNum(y))
FloatMul(x, k) == Float(FloatNum(x) * k, FloatDen(x))

\* x >= k for an integer k.
FloatAtLeast(x, k) == FloatNum(x) >= k * FloatDen(x)

\* TokenSnapshot(price=float(price), timestamp=timestamp), the price a whole
\* number.
TokenSnapshot(p, ts) == [price |-> Float(p, 1), timestamp |-> ts]

is_suspicious(profile) ==
  profile.transaction_count_7d < MaxTxCount \/ profile.transaction_count_30d < MaxTxCount

\* ((current.price - previous.price) / previous.price) * 100, for
\* previous.price > 0.
PriceIncrease(cur, prev) == FloatMul(FloatDiv(FloatSub(cur, prev), prev), 100)

\* A comparison over every current token.
ComparableAddressesCurrentOnly(cur, prev) == DOMAIN cur

\* set(current_snapshots.keys()) & set(previous_snapshots.keys())
ComparableAddresses(cur, prev) == DOMAIN cur \cap DOMAIN prev

\* The monitor after __init__.
MonitorInit ==
  /\ is_running = FALSE
  /\ monitor_thread = None
  /\ callback = None
  /\ previous_snapshots = EmptyMap
  /\ current_snapshots = EmptyMap
  /\ snapshot_lock = None
  /\ now = 0
  /\ callerPc = "idle"
  /\ joinLeft = 0
  /\ lastReturn = FALSE
  /\ pc = [t \in Threads |-> "off"]
  /\ has_tokens = [t \in Threads |-> FALSE]
  /\ feed_failed = [t \in Threads |-> FALSE]
  /\ sinkLog = [t \in Threads |-> <<>>]
  /\ common_addresses = [t \in Threads |-> {}]
  /\ alerts = [t \in Threads |-> <<>>]
  /\ sleepLeft = [t \in Threads |-> 0]
  /\ candidate = None
  /\ unsubmitted = {}
  /\ queued = {}
  /\ running = {}
  /\ results = EmptyMap

Init ==
  /\ MonitorInit
  /\ detector = Idle
  /\ analysis = Idle
  /\ qualifier = Idle
  /\ cluster = Idle
  /\ rotation = Idle
  /\ starters = Idle
  /\ rape = Idle
  /\ collect = Idle
  /\ holdings = Idle
  /\ sessions = Idle

\* ------------------------------------------------------- start / stop
\* The thread slots a new threading.Thread can take.
FreeSlots == {t \in Threads : ~IsAlive(t)}

\* start_monitoring without its guard.
StartRefusedNever == FALSE

\* "if self.is_running: return False" of start_monitoring.
StartRefused == is_running

start_monitoring(cb) ==
  /\ callerPc = "idle"
  /\ IF StartRefused
       THEN /\ lastReturn' = FALSE
            /\ UNCHANGED <<monitorVars, pc>>
       ELSE /\ FreeSlots # {}
            /\ is_running' = TRUE
            /\ callback' = cb
            /\ monitor_thread' = Min(FreeSlots)
            /\ pc' = [pc EXCEPT ![Min(FreeSlots)] = "while"]
            /\ lastReturn' = TRUE
  /\ UNCHANGED <<pureVars, storeVars, snapshot_lock, now, callerPc, joinLeft, localVars,
                 sleepLeft, poolVars>>

\* stop_monitoring without its guard.
StopRefusedNever == FALSE

\* "if not self.is_running: return False" of stop_monitoring.
StopRefused == ~is_running

stop_monitoring ==
  /\ callerPc = "idle"
  /\ IF StopRefused
       THEN /\ lastReturn' = FALSE
            /\ UNCHANGED <<is_running, callerPc, joinLeft>>
       ELSE /\ is_running' = FALSE
            /\ IF IsAlive(monitor_thread)
                 THEN /\ callerPc' = "joining"
                      /\ joinLeft' = JoinTimeout
                      /\ lastReturn' = FALSE
                 ELSE /\ lastReturn' = TRUE
                      /\ UNCHANGED <<callerPc, joinLeft>>
  /\ UNCHANGED <<pureVars, monitor_thread, callback, storeVars, snapshot_lock, now, pc,
                 localVars, sleepLeft, poolVars>>

\* monitor_thread.join(timeout=5) returns: the thread ended, or the timeout
\* passed; stop_monitoring then returns True.
JoinReturn ==
  /\ callerPc = "joining"
  /\ ~IsAlive(monitor_thread) \/ joinLeft = 0
  /\ callerPc' = "idle"
  /\ joinLeft' = 0
  /\ lastReturn' = TRUE
  /\ UNCHANGED <<pureVars, monitorVars, storeVars, snapshot_lock, now, pc, localVars,
                 sleepLeft, poolVars>>

\* ------------------------------------------------------------------- time
Sleeping(t) == pc[t] \in {"sleep", "backoff"}

\* The waits that have time left.
Timers == ({joinLeft} \cup {sleepLeft[t] : t \in Threads}) \ {0}

Elapse(x, d) == IF x > d THEN x - d ELSE 0

\* The positions before a step that neither calls a provider or the
\* callback nor sleeps nor waits: the "while" test, the recording of the
\* fetched tokens, the comparison of one pair, executor.submit.
ImmediatePcs == {"while", "record", "compare", "submit"}

\* Time passes up to the next expiry.
Tick ==
  /\ Timers # {}
  /\ \A t \in Threads : pc[t] \notin ImmediatePcs
  /\ joinLeft' = Elapse(joinLeft, Min(Timers))
  /\ sleepLeft' = [t \in Threads |-> Elapse(sleepLeft[t], Min(Timers))]
  /\ UNCHANGED <<pureVars, monitorVars, storeVars, snapshot_lock, now, callerPc, lastReturn,
                 pc, localVars, poolVars>>

\* ------------------------------------------------------ _monitoring_loop
\* while self.is_running: the thread ends when the test fails.
LoopTest(t) ==
  /\ pc[t] = "while"
  /\ pc' = [pc EXCEPT ![t] = IF is_running THEN "fetch" ELSE "off"]
  /\ UNCHANGED <<pureVars, monitorVars, storeVars, snapshot_lock, now, callerVars,
                 localVars, sleepLeft, poolVars>>

\* tokens = self._fetch_qualified_tokens(): the feed's answer, or [] when
\* the feed fails (the exception is caught inside). The prices of a
\* non-empty answer are read when the snapshots are recorded.
FetchQualifiedTokens(t) ==
  /\ pc[t] = "fetch"
  /\ now < MaxCycles
  /\ \/ \E some \in BOOLEAN :
          /\ has_tokens' = [has_tokens EXCEPT ![t] = some]
          /\ feed_failed' = [feed_failed EXCEPT ![t] = FALSE]
     \/ /\ has_tokens' = [has_tokens EXCEPT ![t] = FALSE]
        /\ feed_failed' = [feed_failed EXCEPT ![t] = TRUE]
  /\ pc' = [pc EXCEPT ![t] = "rotate"]
  /\ UNCHANGED <<pureVars, monitorVars, storeVars, snapshot_lock, now, callerVars,
                 sinkLog, common_addresses, alerts, sleepLeft, poolVars>>

\* A rotation that merges current into previous instead of replacing it.
RotatedPreviousMerged(prev, cur) ==
  [k \in DOMAIN prev \cup DOMAIN cur |-> IF k \in DOMAIN cur THEN cur[k] ELSE prev[k]]

\* previous_snapshots after the rotation: self.current_snapshots.copy().
RotatedPrevious(prev, cur) == cur

\* with self.snapshot_lock: previous = current.copy(); current = {}
\* (both branches of "if tokens"); with tokens the lock is kept for the
\* recording of the snapshots.
RotateSnapshots(t) ==
  /\ pc[t] = "rotate"
  /\ snapshot_lock = None
  /\ previous_snapshots' = RotatedPrevious(previous_snapshots, current_snapshots)
  /\ current_snapshots' = EmptyMap
  /\ now' = now + 1
  /\ IF has_tokens[t]
       THEN /\ snapshot_lock' = t
            /\ pc' = [pc EXCEPT ![t] = "record"]
       ELSE /\ snapshot_lock' = None
            /\ pc' = [pc EXCEPT ![t] = "deliver"]
  /\ UNCHANGED <<pureVars, monitorVars, callerVars, localVars, sleepLeft, poolVars>>

\* for token in tokens: snapshot = self._create_token_snapshot(...);
\* if snapshot: current_snapshots[address] = snapshot. A token whose
\* snapshot cannot be built (not in created) is left out.
RecordSnapshots(t) ==
  /\ pc[t] = "record"
  /\ snapshot_lock = t
  /\ \E f \in FeedResults :
       /\ DOMAIN f # {}
       /\ \E created \in SUBSET DOMAIN f :
            current_snapshots' = [k \in created |-> TokenSnapshot(f[k], now)]
  /\ snapshot_lock' = None
  /\ has_tokens' = [has_tokens EXCEPT ![t] = FALSE]
  /\ pc' = [pc EXCEPT ![t] = "check"]
  /\ UNCHANGED <<pureVars, monitorVars, previous_snapshots, now, callerVars, feed_failed,
                 sinkLog, common_addresses, alerts, sleepLeft, poolVars>>

\* A loop whose except clause lies outside the while: an exception ends it.
LoopExceptEndsThread == "off"

\* Where "except Exception" of the loop's try leaves the thread: in
\* time.sleep(60), before the next "while" test.
LoopExceptPc == "backoff"

\* except Exception as e: ... time.sleep(60). The thread has left whatever
\* "with" block it was in (the lock is released) and its cycle's locals.
LoopExcept(t) ==
  /\ pc' = [pc EXCEPT ![t] = LoopExceptPc]
  /\ sleepLeft' = [sleepLeft EXCEPT ![t] = IF LoopExceptPc = "backoff" THEN BackoffSeconds ELSE 0]
  /\ snapshot_lock' = IF snapshot_lock = t THEN None ELSE snapshot_lock
  /\ has_tokens' = [has_tokens EXCEPT ![t] = FALSE]
  /\ feed_failed' = [feed_failed EXCEPT ![t] = FALSE]
  /\ sinkLog' = [sinkLog EXCEPT ![t] = <<>>]
  /\ common_addresses' = [common_addresses EXCEPT ![t] = {}]
  /\ alerts' = [alerts EXCEPT ![t] = <<>>]

\* An exception raised by a statement of the cycle body that no inner try
\* covers (the recording of the snapshots, the comparison's log lines, the
\* alert loop).
CycleError(t) ==
  /\ pc[t] \in {"record", "compare", "deliver"}
  /\ LoopExcept(t)
  /\ UNCHANGED <<pureVars, monitorVars, storeVars, now, callerVars, poolVars>>

\* ------------------------------------------------- _check_price_changes
\* with self.snapshot_lock: common_addresses = current.keys() & previous.keys();
\* with nothing to compare the empty alert list is returned at once.
CheckPriceChanges(t) ==
  /\ pc[t] = "check"
  /\ snapshot_lock = None
  /\ LET common == ComparableAddresses(current_snapshots, previous_snapshots)
     IN  /\ common_addresses' = [common_addresses EXCEPT ![t] = common]
         /\ IF common = {}
              THEN /\ snapshot_lock' = None
                   /\ pc' = [pc EXCEPT ![t] = "deliver"]
              ELSE /\ snapshot_lock' = t
                   /\ pc' = [pc EXCEPT ![t] = "compare"]
  /\ alerts' = [alerts EXCEPT ![t] = <<>>]
  /\ UNCHANGED <<pureVars, monitorVars, storeVars, now, callerVars, has_tokens,
                 feed_failed, sinkLog, sleepLeft, poolVars>>

\* A test that lets a previous price of 0 through.
EvaluableFromZero(prev) == prev[1] >= 0

\* if previous.price > 0
Evaluable(prev) == prev[1] > 0

\* price_increase >= self.price_increase_threshold
MeetsThreshold(cur, prev) ==
  FloatAtLeast(PriceIncrease(cur, prev), PriceIncreaseThreshold)

\* What one iteration of the loop over common_addresses does with a pair:
\* the division by a previous price of 0 raises ZeroDivisionError.
PairOutcome(cur, prev) ==
  IF ~Evaluable(prev) THEN "skipped"
  ELSE IF prev[1] = 0 THEN "ZeroDivisionError"
  ELSE IF MeetsThreshold(cur, prev) THEN "candidate"
  ELSE "below"

IsCandidate(cur, prev) == PairOutcome(cur, prev) = "candidate"

\* One iteration of "for contract_address in common_addresses": a token
\* whose rise meets the threshold goes to _analyze_suspicious_activity, any
\* other is passed over. A key missing from a generation raises KeyError,
\* a division by 0 ZeroDivisionError.
ComparePrices(t) ==
  /\ pc[t] = "compare"
  /\ snapshot_lock = t
  /\ \E k \in common_addresses[t] :
       IF /\ k \in DOMAIN current_snapshots /\ k \in DOMAIN previous_snapshots
          /\ PairOutcome(current_snapshots[k].price, previous_snapshots[k].price)
               # "ZeroDivisionError"
         THEN /\ common_addresses' = [common_addresses EXCEPT ![t] = @ \ {k}]
              /\ IF IsCandidate(current_snapshots[k].price, previous_snapshots[k].price)
                   THEN /\ candidate' = k
                        /\ pc' = [pc EXCEPT ![t] = "traders"]
                   ELSE UNCHANGED <<candidate, pc>>
              /\ UNCHANGED <<snapshot_lock, has_tokens, feed_failed, sinkLog,
                             alerts, sleepLeft>>
         ELSE /\ LoopExcept(t)
              /\ UNCHANGED candidate
  /\ UNCHANGED <<pureVars, monitorVars, storeVars, now, callerVars, unsubmitted, queued,
                 running, results>>

\* The for loop is exhausted: the lock is released and alerts returned.
CompareDone(t) ==
  /\ pc[t] = "compare"
  /\ snapshot_lock = t
  /\ common_addresses[t] = {}
  /\ snapshot_lock' = None
  /\ pc' = [pc EXCEPT ![t] = "deliver"]
  /\ UNCHANGED <<pureVars, monitorVars, storeVars, now, callerVars, localVars, sleepLeft,
                 poolVars>>

\* ------------------------------------------ _analyze_suspicious_activity
\* trading_addresses = self.okx_crawler.get_token_trading_addresses(...);
\* with none the candidate is given up (return None).
FetchTraders(t) ==
  /\ pc[t] = "traders"
  /\ \E A \in TraderSets :
       IF A = {}
         THEN /\ candidate' = None
              /\ pc' = [pc EXCEPT ![t] = "compare"]
              /\ UNCHANGED unsubmitted
         ELSE /\ unsubmitted' = A
              /\ pc' = [pc EXCEPT ![t] = "submit"]
              /\ UNCHANGED candidate
  /\ UNCHANGED <<pureVars, monitorVars, storeVars, snapshot_lock, now, callerVars,
                 localVars, sleepLeft, queued, running, results>>

\* executor.submit(self._analyze_address_profile, addr), one address of the
\* dict comprehension: ThreadPoolExecutor(max_workers=5) starts a worker
\* thread for the task while it has fewer than max_workers, and queues the
\* task otherwise.
SubmitProfile(t) ==
  /\ pc[t] = "submit"
  /\ \E a \in unsubmitted :
       /\ unsubmitted' = unsubmitted \ {a}
       /\ IF Cardinality(running) < MaxWorkers
            THEN running' = running \cup {a} /\ UNCHANGED queued
            ELSE queued' = queued \cup {a} /\ UNCHANGED running
       /\ pc' = [pc EXCEPT ![t] = IF unsubmitted = {a} THEN "collect" ELSE "submit"]
  /\ UNCHANGED <<pureVars, monitorVars, storeVars, snapshot_lock, now, callerVars,
                 localVars, sleepLeft, candidate, results>>

\* _analyze_address_profile(addr) returns in its worker: a profile, or None
\* when the profiling raised. The worker then takes a queued task, if there
\* is one.
WorkerFinish ==
  /\ \E a \in running, r \in ProfileResults :
       /\ results' = [x \in DOMAIN results \cup {a} |->
                        IF x = a THEN r ELSE results[x]]
       /\ IF queued = {}
            THEN running' = running \ {a} /\ UNCHANGED queued
            ELSE \E b \in queued :
                   /\ running' = (running \ {a}) \cup {b}
                   /\ queued' = queued \ {b}
  /\ UNCHANGED <<pureVars, monitorVars, storeVars, snapshot_lock, now, callerVars, pc,
                 localVars, sleepLeft, candidate, unsubmitted>>

\* address_profiles: the addresses whose future returned a profile.
AddressProfiles(res) == {a \in DOMAIN res : res[a].ok}

SuspiciousAddresses(res) == {a \in AddressProfiles(res) : is_suspicious(res[a])}

\* An alert whatever the number of suspicious addresses.
EnoughSuspiciousAlways(n) == TRUE

\* len(suspicious_addresses) >= min_suspicious
EnoughSuspicious(n) == n >= MinSuspiciousAddresses

GakeAlert(k, inc, res) ==
  [token |-> k, price_increase |-> inc,
   suspicious_addresses |-> SuspiciousAddresses(res)]

\* as_completed has yielded every future and the executor has shut down
\* (its workers joined): the suspicious addresses are counted and the alert
\* built when there are at least min_suspicious_addresses of them.
DecideAlert(t) ==
  /\ pc[t] = "collect"
  /\ queued = {} /\ running = {}
  /\ LET inc == PriceIncrease(current_snapshots[candidate].price,
                              previous_snapshots[candidate].price)
     IN  alerts' = [alerts EXCEPT ![t] =
           IF EnoughSuspicious(Cardinality(SuspiciousAddresses(results)))
             THEN Append(@, GakeAlert(candidate, inc, results))
             ELSE @]
  /\ candidate' = None
  /\ results' = EmptyMap
  /\ pc' = [pc EXCEPT ![t] = "compare"]
  /\ UNCHANGED <<pureVars, monitorVars, storeVars, snapshot_lock, now, callerVars,
                 has_tokens, feed_failed, sinkLog, common_addresses, sleepLeft,
                 unsubmitted, queued, running>>

\* ---------------------------------------------------------- _process_alert
\* A _process_alert without its try: the callback's exception reaches the
\* loop's except clause.
SinkExceptPropagates == "backoff"

\* Where "except Exception" of _process_alert leaves the thread: in the
\* alert loop, at the next alert.
SinkExceptPc == "deliver"

\* self.callback(alert) for the first alert left: it returns or raises; no
\* callback, no call.
ProcessAlert(t) ==
  /\ pc[t] = "deliver"
  /\ alerts[t] # <<>>
  /\ \/ /\ callback = None
        /\ alerts' = [alerts EXCEPT ![t] = Tail(@)]
        /\ UNCHANGED <<sinkLog, pc, sleepLeft>>
     \/ /\ callback # None
        /\ alerts' = [alerts EXCEPT ![t] = Tail(@)]
        /\ sinkLog' = [sinkLog EXCEPT ![t] = Append(@, "delivered")]
        /\ UNCHANGED <<pc, sleepLeft>>
     \/ /\ callback # None
        /\ sinkLog' = [sinkLog EXCEPT ![t] = Append(@, "raised")]
        /\ alerts' = [alerts EXCEPT ![t] = IF SinkExceptPc = "deliver" THEN Tail(@) ELSE <<>>]
        /\ pc' = [pc EXCEPT ![t] = SinkExceptPc]
        /\ sleepLeft' = [sleepLeft EXCEPT ![t] =
                           IF SinkExceptPc = "backoff" THEN BackoffSeconds ELSE @]
  /\ UNCHANGED <<pureVars, monitorVars, storeVars, snapshot_lock, now, callerVars,
                 has_tokens, feed_failed, common_addresses, poolVars>>

\* if self.is_running: time.sleep(self.snapshot_interval)
CycleSleep(t) ==
  /\ pc[t] = "deliver"
  /\ alerts[t] = <<>>
  /\ IF is_running
       THEN /\ pc' = [pc EXCEPT ![t] = "sleep"]
            /\ sleepLeft' = [sleepLeft EXCEPT ![t] = SnapshotInterval]
       ELSE /\ pc' = [pc EXCEPT ![t] = "while"]
            /\ UNCHANGED sleepLeft
  /\ feed_failed' = [feed_failed EXCEPT ![t] = FALSE]
  /\ sinkLog' = [sinkLog EXCEPT ![t] = <<>>]
  /\ UNCHANGED <<pureVars, monitorVars, storeVars, snapshot_lock, now, callerVars,
                 has_tokens, common_addresses, alerts, poolVars>>

\* time.sleep returns once its time has passed.
Wake(t) ==
  /\ Sleeping(t)
  /\ sleepLeft[t] = 0
  /\ pc' = [pc EXCEPT ![t] = "while"]
  /\ UNCHANGED <<pureVars, monitorVars, storeVars, snapshot_lock, now, callerVars,
                 localVars, sleepLeft, poolVars>>

\* ---------------------------------------------------------- specification
Next ==
  \/ \E cb \in Callbacks : start_monitoring(cb)
  \/ stop_monitoring
  \/ JoinReturn
  \/ Tick
  \/ \E t \in Threads :
       \/ LoopTest(t)
       \/ FetchQualifiedTokens(t)
       \/ RotateSnapshots(t)
       \/ RecordSnapshots(t)
       \/ CycleError(t)
       \/ CheckPriceChanges(t)
       \/ ComparePrices(t)
       \/ CompareDone(t)
       \/ FetchTraders(t)
       \/ SubmitProfile(t)
       \/ DecideAlert(t)
       \/ ProcessAlert(t)
       \/ CycleSleep(t)
       \/ Wake(t)
  \/ WorkerFinish

Spec == Init /\ [][Next]_vars

\* ------------------------------------------- the price comparison on its own
\* float(price) for a decimal price given in tenths.
DecimalFloat(d) == Float(d, 10)

\* _check_price_changes is called on a store whose two generations hold
\* every token, at any of the decimal prices.
DetectorInit ==
  /\ MonitorInit
  /\ \E prev \in [Tokens -> DecimalPrices], cur \in [Tokens -> DecimalPrices] :
       detector = [pc |-> "compare", previous |-> prev, current |-> cur,
                   common_addresses |-> Tokens, outcome |-> EmptyMap]
  /\ analysis = Idle
  /\ qualifier = Idle
  /\ cluster = Idle
  /\ rotation = Idle
  /\ starters = Idle
  /\ rape = Idle
  /\ collect = Idle
  /\ holdings = Idle
  /\ sessions = Idle

\* One iteration of "for contract_address in common_addresses"; an exception
\* ends the call.
DetectorCompare ==
  /\ detector.pc = "compare"
  /\ \E k \in detector.common_addresses :
       LET o == PairOutcome(DecimalFloat(detector.current[k]),
                            DecimalFloat(detector.previous[k]))
       IN  detector' =
             IF o = "ZeroDivisionError"
               THEN [detector EXCEPT !.pc = "raised"]
               ELSE [detector EXCEPT
                       !.common_addresses = @ \ {k},
                       !.outcome = [x \in DOMAIN @ \cup {k} |->
                                      IF x = k THEN o ELSE @[x]]]
  /\ UNCHANGED exceptDetector

\* The loop is exhausted: return alerts.
DetectorReturn ==
  /\ detector.pc = "compare"
  /\ detector.common_addresses = {}
  /\ detector' = [detector EXCEPT !.pc = "returned"]
  /\ UNCHANGED exceptDetector

DetectorNext ==
  \/ DetectorCompare
  \/ DetectorReturn

DetectorSpec == DetectorInit /\ [][DetectorNext]_vars

\* ------------------------------------------- one candidate's analysis on its own
\* The tokens an address's token list can name: the candidate itself, the
\* native coin (a base asset) and one other token.
CandidateToken == "T"
BaseAssets == {"SOL"}
AnalysisTokens == {CandidateToken, "U"} \cup BaseAssets

\* What get_transaction_data gives: None (ok = FALSE: no 200, an API error
\* or an exception) or the TransactionData of the period.
TxOutcomes ==
  {[ok |-> FALSE, total_trades |-> 0]}
    \cup {[ok |-> TRUE, total_trades |-> n] : n \in TxCounts}
\* What get_address_token_details gives: [] after a failed request
\* (ok = FALSE), or the tokens the address traded.
TokenListOutcomes ==
  {[ok |-> FALSE, tokens |-> {}]}
    \cup {[ok |-> TRUE, tokens |-> S] : S \in SUBSET AnalysisTokens \ {{}}}
\* balanceUsd of a listed token: nothing, or the least common value.
BalanceLevels == {0, MinCommonValue}

\* tx_data.total_trades if tx_data else 0
total_trades(o) == IF o.ok THEN o.total_trades ELSE 0
\* The contract addresses of token_details.
all_traded_tokens(o) == IF o.ok THEN o.tokens ELSE {}

\* AddressProfile(...) of _analyze_address_profile, built from the dict of
\* analyze_address_trading_profile (never empty, so never turned into None).
AddressProfileOf(f) ==
  [transaction_count_7d |-> total_trades(f.tx7d),
   transaction_count_30d |-> total_trades(f.tx30d),
   common_tokens |-> all_traded_tokens(f.token_list)]

\* address_profiles once every future has been collected.
CollectedProfiles(fetched) == [a \in DOMAIN fetched |-> AddressProfileOf(fetched[a])]

\* token_count of _find_common_tokens_with_count: token -> the addresses
\* whose profile names it.
TokenCount(profiles) ==
  [x \in UNION {profiles[a].common_tokens : a \in DOMAIN profiles} |->
     {a \in DOMAIN profiles : x \in profiles[a].common_tokens}]

\* _find_common_tokens_with_count: the tokens named by at least
\* min_addresses profiles (fewer than 50 here, so that common_tokens[:50]
\* keeps them all), and their counts.
find_common_tokens_with_count(profiles, min_addresses) ==
  LET tc == TokenCount(profiles)
      common == {x \in DOMAIN tc : Cardinality(tc[x]) >= min_addresses}
  IN  [common_tokens |-> common,
       token_address_count |-> [x \in common |-> Cardinality(tc[x])]]

\* [address for address, profile in address_profiles.items()
\*  if profile.is_suspicious()]
SuspiciousProfiles(profiles) == {a \in DOMAIN profiles : is_suspicious(profiles[a])}

\* AddressAnalyzer.find_suspicious_addresses with the configured
\* max_tx_count_7d and max_tx_count_30d (both 50).
find_suspicious_addresses(profiles) ==
  {a \in DOMAIN profiles :
     profiles[a].transaction_count_7d < MaxTxCount
       /\ profiles[a].transaction_count_30d < MaxTxCount}

\* GakeAlert(token, price_increase, suspicious_addresses, common_tokens,
\* ..., token_address_count, address_profiles)
AnalysisAlert(inc, profiles) ==
  LET common == find_common_tokens_with_count(profiles, MinCommonAddresses)
  IN  [token |-> CandidateToken,
       price_increase |-> inc,
       suspicious_addresses |-> SuspiciousProfiles(profiles),
       common_tokens |-> common.common_tokens,
       token_address_count |-> common.token_address_count,
       address_profiles |-> profiles]

\* The store holds the candidate token at 1.0 and then at 1.0, 1.2 or 1.3;
\* every holder of a token holds the same value of it; a callback is
\* registered.
AnalysisInit ==
  /\ MonitorInit
  /\ detector = Idle
  /\ qualifier = Idle
  /\ cluster = Idle
  /\ rotation = Idle
  /\ starters = Idle
  /\ rape = Idle
  /\ collect = Idle
  /\ holdings = Idle
  /\ sessions = Idle
  /\ \E cur \in {d \in DecimalPrices : d >= 10}, b \in BalanceLevels :
       analysis = [pc |-> "compare", previous |-> 10, current |-> cur,
                   balance_usd |-> b, analysed |-> FALSE,
                   trading_addresses |-> {},
                   fetched |-> EmptyMap, alerts |-> <<>>, delivered |-> <<>>,
                   summary |-> {}]

\* The iteration of _check_price_changes for the token.
AnalysisCompare ==
  /\ analysis.pc = "compare"
  /\ analysis' = [analysis EXCEPT !.pc =
       IF IsCandidate(DecimalFloat(analysis.current), DecimalFloat(analysis.previous))
         THEN "traders" ELSE "deliver"]
  /\ UNCHANGED exceptAnalysis

\* _analyze_suspicious_activity is called (analysed) and asks
\* get_token_trading_addresses; "if not trading_addresses: return None".
AnalysisFetchTraders ==
  /\ analysis.pc = "traders"
  /\ \E n \in 0..MaxTraders :
       analysis' = [analysis EXCEPT !.analysed = TRUE,
                                    !.trading_addresses = 1..n,
                                    !.pc = IF n = 0 THEN "deliver" ELSE "profile"]
  /\ UNCHANGED exceptAnalysis

\* One future of the pool is collected: analyze_address_trading_profile
\* fetched the 7-day and 30-day trade counts and the token list of the
\* address.
AnalysisProfile ==
  /\ analysis.pc = "profile"
  /\ \E a \in analysis.trading_addresses \ DOMAIN analysis.fetched,
        o7 \in TxOutcomes, o30 \in TxOutcomes, tl \in TokenListOutcomes :
       analysis' = [analysis EXCEPT !.fetched =
         [x \in DOMAIN @ \cup {a} |->
            IF x = a THEN [tx7d |-> o7, tx30d |-> o30, token_list |-> tl] ELSE @[x]]]
  /\ UNCHANGED exceptAnalysis

\* The common tokens are computed, the suspicious addresses counted and the
\* alert returned when there are enough of them.
AnalysisDecide ==
  /\ analysis.pc = "profile"
  /\ DOMAIN analysis.fetched = analysis.trading_addresses
  /\ LET profiles == CollectedProfiles(analysis.fetched)
         inc == PriceIncrease(DecimalFloat(analysis.current),
                              DecimalFloat(analysis.previous))
     IN  analysis' = [analysis EXCEPT
           !.alerts = IF EnoughSuspicious(Cardinality(SuspiciousProfiles(profiles)))
                        THEN <<AnalysisAlert(inc, profiles)>> ELSE <<>>,
           !.pc = "deliver"]
  /\ UNCHANGED exceptAnalysis

\* for alert in alerts: self._process_alert(alert), the callback returning.
AnalysisDeliver ==
  /\ analysis.pc = "deliver"
  /\ analysis' = [analysis EXCEPT !.delivered = analysis.alerts, !.pc = "done"]
  /\ UNCHANGED exceptAnalysis

\* AddressAnalyzer.find_suspicious_addresses on the same profiles.
AnalysisSummary ==
  /\ analysis.pc = "done"
  /\ analysis' = [analysis EXCEPT
       !.summary = find_suspicious_addresses(CollectedProfiles(analysis.fetched)),
       !.pc = "summarised"]
  /\ UNCHANGED exceptAnalysis

AnalysisNext ==
  \/ AnalysisCompare
  \/ AnalysisFetchTraders
  \/ AnalysisProfile
  \/ AnalysisDecide
  \/ AnalysisDeliver
  \/ AnalysisSummary

AnalysisSpec == AnalysisInit /\ [][AnalysisNext]_vars

\* ------------------------------- the screening test of the holder analysis
\* self.min_holders and self.min_total_value (USD).
MinHolders == 5
MinTotalValue == 300000

\* analysis_result['token_address'].
target_address == "T"
\* The mint address of SOL, "So11111111111111111111111111111111111111112".
SolMint == "So111"
\* The key under which the balance crawler records native SOL.
NativeSolKey == "SOL"
\* self.excluded_tokens: the addresses of SOL, USDC and USDT.
excluded_tokens == {SolMint, "USDC", "USDT"}
\* The keys whose token_info_map entry has a symbol containing 'SOL...SOL'
\* or a name containing 'UNKNOWN TOKEN (SOL': the default entry that
\* _get_token_info makes for the key "SOL" is symbol 'SOL...SOL', name
\* 'Unknown Token (SOL...)'.
SolFormatted == {NativeSolKey}
\* The keys that top_common_tokens can have.
QualifierTokens == {target_address, SolMint, "USDC", "U"} \cup SolFormatted
\* The holder_count and total_value of an entry of top_common_tokens
\* (_analyze_common_holdings keeps tokens of at least 3 holders worth more
\* than 10000 in total).
HolderCounts == {MinHolders - 1, MinHolders}
TotalValues == {100001, MinTotalValue}
TokenEntries == [holder_count : HolderCounts, total_value : TotalValues]

\* _is_sol_token
is_sol_token(token_addr) ==
  token_addr = SolMint \/ token_addr \in SolFormatted

\* The three "continue" tests of the loop of _check_qualification.
Skipped(token_addr) ==
  \/ token_addr = target_address
  \/ token_addr \in excluded_tokens
  \/ is_sol_token(token_addr)

\* A test that asks for more than the minimum total value.
QualifiesAbove(token_info) ==
  token_info.holder_count >= MinHolders /\ token_info.total_value > MinTotalValue

\* holder_count >= self.min_holders and total_value >= self.min_total_value
Qualifies(token_info) ==
  token_info.holder_count >= MinHolders /\ token_info.total_value >= MinTotalValue

\* _check_qualification is called on an analysis result.
QualifierInit ==
  /\ MonitorInit
  /\ detector = Idle
  /\ analysis = Idle
  /\ cluster = Idle
  /\ rotation = Idle
  /\ starters = Idle
  /\ rape = Idle
  /\ collect = Idle
  /\ holdings = Idle
  /\ sessions = Idle
  /\ \E S \in SUBSET QualifierTokens :
       \E top \in [S -> TokenEntries] :
         qualifier = [pc |-> "loop", top_common_tokens |-> top,
                      examined |-> {}, result |-> FALSE]

\* One iteration of "for token_addr, token_info in top_tokens.items()":
\* continue, or return True.
QualifierExamine ==
  /\ qualifier.pc = "loop"
  /\ \E x \in DOMAIN qualifier.top_common_tokens \ qualifier.examined :
       IF ~Skipped(x) /\ Qualifies(qualifier.top_common_tokens[x])
         THEN qualifier' = [qualifier EXCEPT !.pc = "returned", !.result = TRUE]
         ELSE qualifier' = [qualifier EXCEPT !.examined = @ \cup {x}]
  /\ UNCHANGED exceptQualifier

\* The loop ended: return False.
QualifierReturnFalse ==
  /\ qualifier.pc = "loop"
  /\ qualifier.examined = DOMAIN qualifier.top_common_tokens
  /\ qualifier' = [qualifier EXCEPT !.pc = "returned", !.result = FALSE]
  /\ UNCHANGED exceptQualifier

QualifierNext == QualifierExamine \/ QualifierReturnFalse

QualifierSpec == QualifierInit /\ [][QualifierNext]_vars

\* ------------------------------------ the cluster analysis of the holders
\* Analysed holder addresses.
MaxHolders == 3
Holders == 1..MaxHolders

\* TokenHolderAnalyzer.excluded_tokens: the addresses of SOL, USDC, USDT,
\* RAY and SRM.
holder_excluded_tokens == {SolMint, "USDC", "USDT", "RAY", "SRM"}

\* The assets the balance API lists for an address: native SOL comes with
\* the symbol "SOL" and no address in coinBalanceDetails, a token with its
\* contract address.
ClusterAssets ==
  {[symbol |-> "SOL", address |-> ""],
   [symbol |-> "USDC", address |-> "USDC"],
   [symbol |-> "U", address |-> "U"],
   [symbol |-> "V", address |-> "V"]}
\* currencyAmount of an address's assets (USD).
ValueLevels == {1, 2}

\* The token_contract_address _parse_assets_data gives add_balance.
BalanceKey(asset) ==
  IF asset.symbol = "SOL" \/ asset.address = "SOL" THEN NativeSolKey
  ELSE asset.address

\* _parse_assets_data: the balances of one address, token_contract_address
\* -> value; an asset that is not native and has no address is left out.
parse_assets_data(answer) ==
  [k \in {BalanceKey(x) : x \in answer.assets} \ {""} |-> answer.value]

\* The token set _analyze_clusters builds for a profile.
address_token_set(balances) ==
  {k \in DOMAIN balances : k \notin holder_excluded_tokens /\ balances[k] > 1}

\* The pair clusters of _analyze_clusters.
PairClusters(address_tokens) ==
  {[addresses |-> {a, b},
    common_tokens |-> address_tokens[a] \cap address_tokens[b],
    cluster_score |-> 2 * Cardinality(address_tokens[a] \cap address_tokens[b])] :
     <<a, b>> \in {p \in (DOMAIN address_tokens) \X (DOMAIN address_tokens) :
                     /\ p[1] < p[2]
                     /\ Cardinality(address_tokens[p[1]] \cap address_tokens[p[2]]) >= 2}}

\* The tokens every address of H has in its token set.
CommonOf(address_tokens, H) ==
  {x \in UNION {address_tokens[a] : a \in H} : \A a \in H : x \in address_tokens[a]}

\* _find_large_clusters: for each token held by at least 3 addresses, its
\* holders and the tokens they all hold (one cluster per set of holders).
find_large_clusters(address_tokens) ==
  LET holders(x) == {a \in DOMAIN address_tokens : x \in address_tokens[a]}
      groups == {holders(x) : x \in UNION {address_tokens[a] : a \in DOMAIN address_tokens}}
  IN  {[addresses |-> H,
        common_tokens |-> CommonOf(address_tokens, H),
        cluster_score |-> Cardinality(H) * Cardinality(CommonOf(address_tokens, H))] :
         H \in {G \in groups : /\ Cardinality(G) >= 3
                               /\ Cardinality(CommonOf(address_tokens, G)) >= 2}}

\* The balance API's answers for the holders of a token.
ClusterInit ==
  /\ MonitorInit
  /\ detector = Idle
  /\ analysis = Idle
  /\ qualifier = Idle
  /\ rotation = Idle
  /\ starters = Idle
  /\ rape = Idle
  /\ collect = Idle
  /\ holdings = Idle
  /\ sessions = Idle
  /\ \E answers \in [Holders -> [assets : SUBSET ClusterAssets, value : ValueLevels]] :
       cluster = [pc |-> "fetch", answers |-> answers, holder_profiles |-> EmptyMap,
                  clusters |-> {}, large_clusters |-> {}]

\* fetch_multiple_addresses_fast and "if profile and profile.balances":
\* the profiles of the holders that have balances.
ClusterFetch ==
  /\ cluster.pc = "fetch"
  /\ cluster' = [cluster EXCEPT
       !.holder_profiles =
         [a \in {h \in Holders : cluster.answers[h].assets # {}} |->
            parse_assets_data(cluster.answers[a])],
       !.pc = "analyze"]
  /\ UNCHANGED exceptCluster

\* _analyze_clusters
ClusterAnalyze ==
  /\ cluster.pc = "analyze"
  /\ LET address_tokens == [a \in DOMAIN cluster.holder_profiles |->
                              address_token_set(cluster.holder_profiles[a])]
     IN  cluster' = [cluster EXCEPT
           !.clusters = PairClusters(address_tokens),
           !.large_clusters = find_large_clusters(address_tokens),
           !.pc = "returned"]
  /\ UNCHANGED exceptCluster

ClusterNext == ClusterFetch \/ ClusterAnalyze

ClusterSpec == ClusterInit /\ [][ClusterNext]_vars

\* --------------------------- the snapshot rotation beside a status reader
\* The statements of a cycle that touch the two generations, one by one,
\* and get_status called from another thread. A generation is the set of
\* the contract addresses it has a snapshot of. boundary is the pair of
\* generations at the last release of the lock by the cycle.
FreeLock == "free"

\* A loop that releases the lock before it records the snapshots.
RecordOutsideLock == FALSE

\* The recording of the snapshots lies inside the "with" block of the
\* rotation.
RecordUnderLock == TRUE

RotationInit ==
  /\ MonitorInit
  /\ detector = Idle
  /\ analysis = Idle
  /\ qualifier = Idle
  /\ cluster = Idle
  /\ starters = Idle
  /\ rape = Idle
  /\ collect = Idle
  /\ holdings = Idle
  /\ sessions = Idle
  /\ rotation = [pc |-> "fetch", rpc |-> "idle", lock |-> FreeLock,
                 previous_snapshots |-> {}, current_snapshots |-> {},
                 tokens |-> {}, cycle |-> 0,
                 boundary |-> <<{}, {}>>,
                 status |-> <<>>]

\* tokens = self._fetch_qualified_tokens()
RotationFetch ==
  /\ rotation.pc = "fetch"
  /\ rotation.cycle < MaxCycles
  /\ \E f \in SUBSET Tokens :
       rotation' = [rotation EXCEPT !.tokens = f, !.cycle = @ + 1, !.pc = "acquire"]
  /\ UNCHANGED exceptRotation

\* with self.snapshot_lock: (either branch of "if tokens")
RotationAcquire ==
  /\ rotation.pc = "acquire"
  /\ rotation.lock = FreeLock
  /\ rotation' = [rotation EXCEPT !.lock = "loop", !.pc = "copy"]
  /\ UNCHANGED exceptRotation

\* self.previous_snapshots = self.current_snapshots.copy()
RotationCopy ==
  /\ rotation.pc = "copy"
  /\ rotation' = [rotation EXCEPT !.previous_snapshots = rotation.current_snapshots,
                                  !.pc = "clear"]
  /\ UNCHANGED exceptRotation

\* self.current_snapshots = {}; without tokens the block ends here.
RotationClear ==
  /\ rotation.pc = "clear"
  /\ rotation' = [rotation EXCEPT
       !.current_snapshots = {},
       !.pc = IF rotation.tokens = {} THEN "release" ELSE "record",
       !.lock = IF rotation.tokens # {} /\ ~RecordUnderLock THEN FreeLock ELSE @]
  /\ UNCHANGED exceptRotation

\* One iteration of "for token in tokens": the snapshot is created and
\* stored, or _create_token_snapshot returned None.
RotationRecord ==
  /\ rotation.pc = "record"
  /\ \E k \in rotation.tokens, created \in BOOLEAN :
       rotation' = [rotation EXCEPT
         !.tokens = @ \ {k},
         !.current_snapshots = IF created THEN @ \cup {k} ELSE @,
         !.pc = IF rotation.tokens = {k} THEN "release" ELSE "record"]
  /\ UNCHANGED exceptRotation

\* The "with" block is left.
RotationRelease ==
  /\ rotation.pc = "release"
  /\ rotation' = [rotation EXCEPT
       !.lock = IF @ = "loop" THEN FreeLock ELSE @,
       !.boundary = <<rotation.previous_snapshots, rotation.current_snapshots>>,
       !.pc = "fetch"]
  /\ UNCHANGED exceptRotation

\* get_status: with self.snapshot_lock:
StatusAcquire ==
  /\ rotation.rpc = "idle"
  /\ rotation.lock = FreeLock
  /\ rotation' = [rotation EXCEPT !.lock = "reader", !.rpc = "current", !.status = <<>>]
  /\ UNCHANGED exceptRotation

\* current_tokens = len(self.current_snapshots)
StatusReadCurrent ==
  /\ rotation.rpc = "current"
  /\ rotation' = [rotation EXCEPT
       !.status = <<[current_tokens |-> Cardinality(rotation.current_snapshots),
                     previous_tokens |-> 0,
                     mid_cycle |-> rotation.pc \in {"copy", "clear", "record", "release"},
                     boundary |-> rotation.boundary]>>,
       !.rpc = "previous"]
  /\ UNCHANGED exceptRotation

\* previous_tokens = len(self.previous_snapshots), and the block is left.
StatusReadPrevious ==
  /\ rotation.rpc = "previous"
  /\ rotation' = [rotation EXCEPT
       !.status = <<[@[1] EXCEPT
                       !.previous_tokens = Cardinality(rotation.previous_snapshots),
                       !.mid_cycle = @ \/ rotation.pc \in {"copy", "clear", "record", "release"}]>>,
       !.lock = IF @ = "reader" THEN FreeLock ELSE @,
       !.rpc = "idle"]
  /\ UNCHANGED exceptRotation

RotationNext ==
  \/ RotationFetch
  \/ RotationAcquire
  \/ RotationCopy
  \/ RotationClear
  \/ RotationRecord
  \/ RotationRelease
  \/ StatusAcquire
  \/ StatusReadCurrent
  \/ StatusReadPrevious

RotationSpec == RotationInit /\ [][RotationNext]_vars

\* ------------------------------------- interleaved start_monitoring calls
\* Bot handler threads that call GakeAnalysisManager.start_gake_monitoring
\* on a stopped monitor, statement by statement.
MaxCallers == 3
Callers == 1..MaxCallers

StartersInit ==
  /\ MonitorInit
  /\ detector = Idle
  /\ analysis = Idle
  /\ qualifier = Idle
  /\ cluster = Idle
  /\ rotation = Idle
  /\ rape = Idle
  /\ collect = Idle
  /\ holdings = Idle
  /\ sessions = Idle
  /\ starters = [pc |-> [c \in Callers |-> "idle"],
                 manager_is_running |-> FALSE,
                 is_running |-> FALSE,
                 callback |-> None,
                 spawned |-> {},
                 success |-> [c \in Callers |-> FALSE],
                 returned |-> [c \in Callers |-> FALSE]]

\* start_gake_monitoring: "if self.is_running: return False, ..."
ManagerCheck(c) ==
  /\ starters.pc[c] = "idle"
  /\ starters' = [starters EXCEPT
       !.pc[c] = IF starters.manager_is_running THEN "done" ELSE "check",
       !.returned[c] = FALSE]
  /\ UNCHANGED exceptStarters

\* start_monitoring: "if self.is_running: return False"
StartCheck(c) ==
  /\ starters.pc[c] = "check"
  /\ starters' = [starters EXCEPT
       !.pc[c] = IF starters.is_running THEN "result" ELSE "set",
       !.success[c] = FALSE]
  /\ UNCHANGED exceptStarters

\* self.is_running = True; self.callback = callback
StartSet(c) ==
  /\ starters.pc[c] = "set"
  /\ starters' = [starters EXCEPT !.is_running = TRUE, !.callback = c,
                                  !.pc[c] = "spawn"]
  /\ UNCHANGED exceptStarters

\* self.monitor_thread = threading.Thread(...); self.monitor_thread.start();
\* return True
StartSpawn(c) ==
  /\ starters.pc[c] = "spawn"
  /\ starters' = [starters EXCEPT !.spawned = @ \cup {c}, !.success[c] = TRUE,
                                  !.pc[c] = "result"]
  /\ UNCHANGED exceptStarters

\* "if success: self.is_running = True; return True, ..." or
\* "return False, ...".
ManagerResult(c) ==
  /\ starters.pc[c] = "result"
  /\ starters' = [starters EXCEPT
       !.manager_is_running = @ \/ starters.success[c],
       !.returned[c] = starters.success[c],
       !.pc[c] = "done"]
  /\ UNCHANGED exceptStarters

StartersNext ==
  \E c \in Callers :
    \/ ManagerCheck(c)
    \/ StartCheck(c)
    \/ StartSet(c)
    \/ StartSpawn(c)
    \/ ManagerResult(c)

StartersSpec == StartersInit /\ [][StartersNext]_vars

\* ------------------------------ RapeAnalysisManager and its analysis run
\* Tokens the feed gives one run of analyze_top_traded_tokens.
MaxRunTokens == 3

\* stopped: stop_analysis has returned success. started_after_stop and
\* pushed_after_stop: the run began the analysis of a token, or pushed a
\* report, after that.
RapeInit ==
  /\ MonitorInit
  /\ detector = Idle
  /\ analysis = Idle
  /\ qualifier = Idle
  /\ cluster = Idle
  /\ rotation = Idle
  /\ starters = Idle
  /\ collect = Idle
  /\ holdings = Idle
  /\ sessions = Idle
  /\ rape = [pc |-> "off", is_running |-> FALSE, stopped |-> FALSE,
             current_cycle |-> 0, tokens_to_analyze |-> 0, i |-> 0,
             qualified_count |-> 0,
             started_after_stop |-> FALSE, pushed_after_stop |-> FALSE]

\* start_analysis on a manager that has not run yet.
RapeStart ==
  /\ rape.pc = "off"
  /\ ~rape.is_running /\ ~rape.stopped
  /\ rape' = [rape EXCEPT !.is_running = TRUE, !.pc = "while"]
  /\ UNCHANGED exceptRape

\* stop_analysis: "if not self.is_running: return False"; is_running = False;
\* return True.
RapeStop ==
  /\ rape.is_running
  /\ rape' = [rape EXCEPT !.is_running = FALSE, !.stopped = TRUE]
  /\ UNCHANGED exceptRape

\* while self.is_running: ... analyze_top_traded_tokens fetches the tokens
\* of the preset (none: it returns []).
RapeLoopTest ==
  /\ rape.pc = "while"
  /\ rape.current_cycle < MaxCycles
  /\ IF rape.is_running
       THEN \E n \in 0..MaxRunTokens :
              rape' = [rape EXCEPT !.tokens_to_analyze = n, !.i = 0,
                                   !.pc = IF n = 0 THEN "summary" ELSE "token"]
       ELSE rape' = [rape EXCEPT !.pc = "ended"]
  /\ UNCHANGED exceptRape

\* for i, token in enumerate(tokens_to_analyze, 1): progress_callback and
\* holder_analyzer.analyze_token_holders(token) are called.
RapeAnalyzeToken ==
  /\ rape.pc = "token"
  /\ rape' = [rape EXCEPT !.i = @ + 1, !.pc = "qualify",
                          !.started_after_stop = @ \/ rape.stopped]
  /\ UNCHANGED exceptRape

\* The analysis gave an error or _check_qualification is False: the loop
\* goes on; or the token qualifies and qualified_callback is called.
RapeQualify ==
  /\ rape.pc = "qualify"
  /\ \E qualified \in BOOLEAN :
       rape' = [rape EXCEPT !.pc =
         IF qualified THEN "send"
         ELSE IF rape.i < rape.tokens_to_analyze THEN "token" ELSE "summary"]
  /\ UNCHANGED exceptRape

\* instant_send_callback: qualified_count += 1; self._send_to_group(report);
\* then time.sleep(delay_between_tokens) unless the token was the last.
RapeSend ==
  /\ rape.pc = "send"
  /\ rape' = [rape EXCEPT
       !.qualified_count = @ + 1,
       !.pushed_after_stop = @ \/ rape.stopped,
       !.pc = IF rape.i < rape.tokens_to_analyze THEN "token" ELSE "summary"]
  /\ UNCHANGED exceptRape

\* analyze_top_traded_tokens has returned: current_cycle += 1;
\* "if self.is_running:" the cycle summary is sent and the thread sleeps
\* 30 s; then the while test.
RapeCycleEnd ==
  /\ rape.pc = "summary"
  /\ rape' = [rape EXCEPT !.current_cycle = @ + 1, !.pc = "while"]
  /\ UNCHANGED exceptRape

RapeNext ==
  \/ RapeStart
  \/ RapeStop
  \/ RapeLoopTest
  \/ RapeAnalyzeToken
  \/ RapeQualify
  \/ RapeSend
  \/ RapeCycleEnd

RapeSpec == RapeInit /\ [][RapeNext]_vars

\* ------------------- _analyze_suspicious_activity in the order it works in
\* The profiles arrive in the order the workers finish (as_completed);
\* dicts and lists keep their insertion order, list.sort is stable.
Range(q) == {q[i] : i \in DOMAIN q}

\* common_tokens = common_tokens[:50]
CommonTokenLimit == 50

\* The token lists (all_traded_tokens, in the provider's order) of a profile.
TokenLists == {<<>>, <<"U">>, <<"V">>, <<"U", "V">>, <<"V", "U">>}

\* What the future of an address gives: None (ok = FALSE) or its profile.
CollectResults ==
  {[ok |-> FALSE, transaction_count_7d |-> 0, transaction_count_30d |-> 0,
    common_tokens |-> <<>>]}
    \cup {[ok |-> TRUE, transaction_count_7d |-> n,
           transaction_count_30d |-> MaxTxCount, common_tokens |-> l] :
            n \in TxCounts, l \in TokenLists}

\* The keys of token_count in insertion order: for each profile in dict
\* order, each of its tokens in list order, when first seen.
RECURSIVE TokenCountKeys(_, _)
TokenCountKeys(order, outcomes) ==
  IF order = <<>> THEN <<>>
  ELSE LET before == TokenCountKeys(SubSeq(order, 1, Len(order) - 1), outcomes)
           mine == outcomes[order[Len(order)]].common_tokens
       IN  before \o SelectSeq(mine, LAMBDA x : x \notin Range(before))

\* len(token_count[token])
SupportCount(order, outcomes, x) ==
  Cardinality({a \in Range(order) : x \in Range(outcomes[a].common_tokens)})

\* list.sort(key=..., reverse=True) on the keys: descending by count, equal
\* counts stay in their earlier order.
RECURSIVE SortByCountDesc(_, _, _)
SortByCountDesc(keys, order, outcomes) ==
  IF keys = <<>> THEN <<>>
  ELSE LET sorted == SortByCountDesc(SubSeq(keys, 1, Len(keys) - 1), order, outcomes)
           x == keys[Len(keys)]
           ahead == SelectSeq(sorted, LAMBDA y :
                      SupportCount(order, outcomes, y) >= SupportCount(order, outcomes, x))
           behind == SelectSeq(sorted, LAMBDA y :
                      SupportCount(order, outcomes, y) < SupportCount(order, outcomes, x))
       IN  ahead \o <<x>> \o behind

\* _find_common_tokens_with_count(address_profiles, min_addresses) as a
\* list, address_profiles having been filled in the given order.
common_tokens_list(order, outcomes, min_addresses) ==
  SortByCountDesc(
    SelectSeq(TokenCountKeys(order, outcomes),
              LAMBDA x : SupportCount(order, outcomes, x) >= min_addresses),
    order, outcomes)

\* A partition that looks at the first profile collected only.
PartitionFirstCollected(order, outcomes) ==
  SelectSeq(SubSeq(order, 1, 1), LAMBDA a : is_suspicious(outcomes[a]))

\* suspicious_addresses: the addresses of address_profiles, in dict order,
\* whose profile is_suspicious().
PartitionSuspicious(order, outcomes) ==
  SelectSeq(order, LAMBDA a : is_suspicious(outcomes[a]))

\* The candidate's trading addresses have been submitted to the pool; each
\* future has a result.
CollectInit ==
  /\ MonitorInit
  /\ detector = Idle
  /\ analysis = Idle
  /\ qualifier = Idle
  /\ cluster = Idle
  /\ rotation = Idle
  /\ starters = Idle
  /\ rape = Idle
  /\ holdings = Idle
  /\ sessions = Idle
  /\ \E outcomes \in [1..MaxTraders -> CollectResults] :
       collect = [pc |-> "collect", results |-> outcomes, yielded |-> {},
                  address_profiles |-> <<>>, common_tokens |-> <<>>,
                  suspicious_addresses |-> <<>>, alerts |-> <<>>]

\* for future in as_completed(future_to_address): one future, whichever
\* finished next; "if profile: address_profiles[address] = profile".
CollectFuture ==
  /\ collect.pc = "collect"
  /\ \E a \in DOMAIN collect.results \ collect.yielded :
       collect' = [collect EXCEPT
         !.yielded = @ \cup {a},
         !.address_profiles = IF collect.results[a].ok THEN Append(@, a) ELSE @]
  /\ UNCHANGED exceptCollect

\* common_tokens, token_address_count =
\*   self._find_common_tokens_with_count(address_profiles, min_addresses=3)
CollectCommonTokens ==
  /\ collect.pc = "collect"
  /\ collect.yielded = DOMAIN collect.results
  /\ collect' = [collect EXCEPT
       !.common_tokens = common_tokens_list(collect.address_profiles,
                                            collect.results, MinCommonAddresses),
       !.pc = "partition"]
  /\ UNCHANGED exceptCollect

\* for address, profile in address_profiles.items(): if profile.is_suspicious()
CollectPartition ==
  /\ collect.pc = "partition"
  /\ collect' = [collect EXCEPT
       !.suspicious_addresses = PartitionSuspicious(collect.address_profiles,
                                                    collect.results),
       !.pc = "check"]
  /\ UNCHANGED exceptCollect

\* if len(suspicious_addresses) >= min_suspicious: the alert with
\* common_tokens[:50]; else None.
CollectCheck ==
  /\ collect.pc = "check"
  /\ collect' = [collect EXCEPT
       !.alerts = IF EnoughSuspicious(Len(collect.suspicious_addresses))
                    THEN <<[suspicious_addresses |-> collect.suspicious_addresses,
                            common_tokens |->
                              SubSeq(collect.common_tokens, 1,
                                     Min({CommonTokenLimit, Len(collect.common_tokens)}))]>>
                    ELSE <<>>,
       !.pc = "returned"]
  /\ UNCHANGED exceptCollect

CollectNext ==
  \/ CollectFuture
  \/ CollectCommonTokens
  \/ CollectPartition
  \/ CollectCheck

CollectSpec == CollectInit /\ [][CollectNext]_vars

\* --------------------- the common holdings handed to the screening test
\* sorted_tokens[:20]
TopCommonLimit == 20
\* Other tokens the analysed holders have in common.
MaxOthers == 21

\* An entry of token_holders after the holders are counted and their values
\* summed; the other tokens ("W") differ by their number.
HoldingEntry(addr, n, count, value) ==
  [token_addr |-> addr, number |-> n, holder_count |-> count, total_value |-> value]

\* "if len(holders) >= 3" and "if total_value > 10000"
IsCommonHolding(e) ==
  e.holder_count >= MinCommonAddresses /\ e.total_value > MinCommonValue

\* sorted(common_tokens.items(), key=holder_count, reverse=True): descending
\* by holder_count, equal counts stay in dict order.
RECURSIVE SortByHolderCount(_)
SortByHolderCount(entries) ==
  IF entries = <<>> THEN <<>>
  ELSE LET sorted == SortByHolderCount(SubSeq(entries, 1, Len(entries) - 1))
           x == entries[Len(entries)]
       IN  SelectSeq(sorted, LAMBDA y : y.holder_count >= x.holder_count)
             \o <<x>>
             \o SelectSeq(sorted, LAMBDA y : y.holder_count < x.holder_count)

\* The first limit entries of a list.
Truncate(entries, limit) == SubSeq(entries, 1, Min({limit, Len(entries)}))

\* _analyze_common_holdings: "top_common_tokens": dict(sorted_tokens[:20])
top_common_tokens(token_holders) ==
  Truncate(SortByHolderCount(SelectSeq(token_holders, IsCommonHolding)),
           TopCommonLimit)

\* The holders' balances have been read: token_holders lists, in the order
\* the tokens were met, USDC (or not), a number of other tokens that do not
\* reach min_total_value, and the token U, first or last.
HoldingsInit ==
  /\ MonitorInit
  /\ detector = Idle
  /\ analysis = Idle
  /\ qualifier = Idle
  /\ cluster = Idle
  /\ rotation = Idle
  /\ starters = Idle
  /\ rape = Idle
  /\ collect = Idle
  /\ sessions = Idle
  /\ \E n \in 0..MaxOthers, others_count \in {MinCommonAddresses - 1, MinHolders + 1},
        stable \in BOOLEAN, u \in TokenEntries, u_first \in BOOLEAN :
       LET usdc == IF stable
                     THEN <<HoldingEntry("USDC", 0, MinHolders + 1, MinTotalValue)>>
                     ELSE <<>>
           others == [i \in 1..n |->
                        HoldingEntry("W", i, others_count, MinCommonValue + 1)]
           mine == <<HoldingEntry("U", 0, u.holder_count, u.total_value)>>
       IN  holdings = [pc |-> "analyze",
                       token_holders |-> IF u_first THEN mine \o usdc \o others
                                                    ELSE usdc \o others \o mine,
                       top_common_tokens |-> <<>>, i |-> 1, result |-> FALSE]

\* analysis_result["common_holdings"] = self._analyze_common_holdings(...)
HoldingsAnalyze ==
  /\ holdings.pc = "analyze"
  /\ holdings' = [holdings EXCEPT
       !.top_common_tokens = top_common_tokens(holdings.token_holders),
       !.pc = "loop"]
  /\ UNCHANGED exceptHoldings

\* One iteration of the loop of _check_qualification over top_tokens.items().
HoldingsExamine ==
  /\ holdings.pc = "loop"
  /\ holdings.i <= Len(holdings.top_common_tokens)
  /\ LET e == holdings.top_common_tokens[holdings.i]
     IN  IF ~Skipped(e.token_addr) /\ Qualifies(e)
           THEN holdings' = [holdings EXCEPT !.pc = "returned", !.result = TRUE]
           ELSE holdings' = [holdings EXCEPT !.i = @ + 1]
  /\ UNCHANGED exceptHoldings

\* The loop ended: return False.
HoldingsReturnFalse ==
  /\ holdings.pc = "loop"
  /\ holdings.i > Len(holdings.top_common_tokens)
  /\ holdings' = [holdings EXCEPT !.pc = "returned", !.result = FALSE]
  /\ UNCHANGED exceptHoldings

HoldingsNext ==
  \/ HoldingsAnalyze
  \/ HoldingsExamine
  \/ HoldingsReturnFalse

HoldingsSpec == HoldingsInit /\ [][HoldingsNext]_vars

\* ------------------------------------ the session pools of the crawlers
\* Concurrent callers of one crawler.
MaxPoolCallers == 3
PoolCallers == 1..MaxPoolCallers
\* "if len(self.session_pool) < 10" of OKXTokenTradingHistoryCrawler, scaled
\* to the number of callers.
SessionPoolLimit == 2
\* held[c] of a caller that holds no session.
NoSession == 0

\* A pool that is read without the session being taken out.
pool_after_peek(session_pool) == session_pool

\* self.session_pool.pop() leaves the list without its last element.
pool_after_pop(session_pool) == SubSeq(session_pool, 1, Len(session_pool) - 1)

\* A crawler is constructed (self.session_pool = []): the one with the
\* limited pool (tokenTradingHistory) or one with an unlimited pool
\* (addressBalance); no caller has started.
SessionsInit ==
  /\ MonitorInit
  /\ detector = Idle
  /\ analysis = Idle
  /\ qualifier = Idle
  /\ cluster = Idle
  /\ rotation = Idle
  /\ starters = Idle
  /\ rape = Idle
  /\ collect = Idle
  /\ holdings = Idle
  /\ \E limited \in BOOLEAN :
       sessions = [pc |-> "running", limited |-> limited, session_pool |-> <<>>,
                   created |-> 0,
                   at |-> [c \in PoolCallers |-> "start"],
                   held |-> [c \in PoolCallers |-> NoSession],
                   failed |-> [c \in PoolCallers |-> FALSE],
                   returns |-> [c \in PoolCallers |-> 0]]

\* session = self._get_or_create_session(): under session_lock, the last
\* session of the pool, or a new one when the pool is empty.
GetOrCreateSession(c) ==
  /\ sessions.pc = "running"
  /\ sessions.at[c] = "start"
  /\ IF sessions.session_pool # <<>>
       THEN sessions' = [sessions EXCEPT
              !.held[c] = sessions.session_pool[Len(sessions.session_pool)],
              !.session_pool = pool_after_pop(@),
              !.at[c] = "request"]
       ELSE sessions' = [sessions EXCEPT
              !.created = @ + 1,
              !.held[c] = sessions.created + 1,
              !.at[c] = "request"]
  /\ UNCHANGED exceptSessions

\* The try block ends with a return.
RequestReturns(c) ==
  /\ sessions.pc = "running"
  /\ sessions.at[c] = "request"
  /\ sessions' = [sessions EXCEPT !.at[c] = "finally"]
  /\ UNCHANGED exceptSessions

\* The request raises: "except Exception" returns the empty answer.
RequestRaises(c) ==
  /\ sessions.pc = "running"
  /\ sessions.at[c] = "request"
  /\ sessions' = [sessions EXCEPT !.at[c] = "finally", !.failed[c] = TRUE]
  /\ UNCHANGED exceptSessions

\* finally: self._return_session(session): under session_lock the session
\* is appended, in the limited pool only while it has fewer sessions than
\* the limit.
ReturnSession(c) ==
  /\ sessions.pc = "running"
  /\ sessions.at[c] = "finally"
  /\ sessions' = [sessions EXCEPT
       !.session_pool =
          IF ~sessions.limited \/ Len(sessions.session_pool) < SessionPoolLimit
            THEN Append(@, sessions.held[c]) ELSE @,
       !.held[c] = NoSession,
       !.returns[c] = @ + 1,
       !.at[c] = "done"]
  /\ UNCHANGED exceptSessions

SessionsNext ==
  \E c \in PoolCallers :
    \/ GetOrCreateSession(c)
    \/ RequestReturns(c)
    \/ RequestRaises(c)
    \/ ReturnSession(c)

SessionsSpec == SessionsInit /\ [][SessionsNext]_vars

\* ------------------------------------------------------------------ claims
\* The positions of a cycle body: from the feed call to the alert loop.
CyclePcs == {"fetch", "rotate", "record", "check", "compare", "traders",
             "submit", "collect", "deliver"}

\* The positions of _check_price_changes between taking and releasing the lock.
ComparePcs == {"compare", "traders", "submit", "collect"}

AlertTokens(t) == {alerts[t][i].token : i \in 1..Len(alerts[t])}

\* C1: start_monitoring starts the monitor (Stopped -> Running, exactly one
\* new cycle-driver thread, which becomes monitor_thread, and True returned)
\* only when the monitor is Stopped; called while Running it returns False,
\* spawns no thread and leaves is_running, monitor_thread and the callback
\* unchanged.
C1_StartOnlyWhenStopped ==
  [][(\E cb \in Callbacks : start_monitoring(cb)) =>
       IF is_running
         THEN /\ lastReturn' = FALSE
              /\ UNCHANGED <<is_running, monitor_thread, callback, pc>>
         ELSE /\ lastReturn' = TRUE
              /\ is_running' = TRUE
              /\ \E t \in Threads :
                   /\ ~IsAlive(t)
                   /\ pc'[t] = "while"
                   /\ monitor_thread' = t
                   /\ \A u \in Threads \ {t} : pc'[u] = pc[u]]_vars

\* A start_monitoring call on a Running monitor has returned False.
C1_Witness ==
  is_running /\ callerPc = "idle" /\ lastReturn = FALSE /\ callback # None

\* C2: cycles are strictly sequential: at most one cycle body (feed call,
\* snapshot rotation, price comparison, alerting) is running in every
\* reachable state, also after stop_monitoring's bounded join and a new
\* start_monitoring.
C2_CyclesSequential ==
  Cardinality({t \in Threads : pc[t] \in CyclePcs}) <= 1

\* C3: once stop_monitoring has returned True and the monitor is Stopped, no
\* cycle-driver thread is still inside a cycle or a sleep and no profiling
\* worker is still executing.
C3_NoLeakedThreads ==
  (callerPc = "idle" /\ lastReturn = TRUE /\ ~is_running) =>
    /\ \A t \in Threads : pc[t] \in {"off", "while"}
    /\ running = {} /\ queued = {}

\* C4: while the cancellation signal is set (is_running is False) the loop
\* (a) begins no cycle, (b) submits no profiling task to the worker pool and
\* (c) does not go on sleeping between cycles.
C4_CancellationObserved ==
  [][~is_running =>
       /\ \A t \in Threads : ~(pc[t] = "while" /\ pc'[t] = "fetch")
       /\ (running' \cup queued') \subseteq (running \cup queued)
       /\ \A t \in Threads :
            ~(pc[t] = "sleep" /\ pc'[t] = "sleep" /\ sleepLeft'[t] < sleepLeft[t])]_vars

\* C5: stop_monitoring on a Stopped monitor is a no-op: it returns False at
\* once (no join) and changes neither is_running, monitor_thread, the threads
\* nor the two snapshot generations, however often it is repeated.
C5_StopWhenStoppedIsNoOp ==
  [][(stop_monitoring /\ ~is_running) =>
       /\ lastReturn' = FALSE
       /\ UNCHANGED <<is_running, monitor_thread, callback, previous_snapshots,
                      current_snapshots, callerPc, joinLeft, pc>>]_vars

\* stop_monitoring has returned False on a monitor that was started and
\* stopped before.
C5_Witness ==
  ~is_running /\ callerPc = "idle" /\ lastReturn = FALSE /\ monitor_thread # None

\* C6: the loop never ends itself: a cycle-driver thread ends only at a
\* "while" test that finds is_running False; an exception in the cycle body
\* leaves is_running as it is and puts the thread into the 60 s backoff,
\* after which it goes back to the "while" test and, still Running, starts
\* the next cycle.
C6_LoopSurvivesBadCycle ==
  [][\A t \in Threads :
       /\ (IsAlive(t) /\ pc'[t] = "off") => (pc[t] = "while" /\ ~is_running)
       /\ CycleError(t) =>
            /\ pc'[t] = "backoff"
            /\ sleepLeft'[t] = BackoffSeconds
            /\ is_running' = is_running
       /\ (pc[t] = "backoff" /\ pc'[t] # "backoff") =>
            (sleepLeft[t] = 0 /\ pc'[t] = "while")
       /\ (pc[t] = "while" /\ pc'[t] # "while" /\ is_running) => pc'[t] = "fetch"]_vars

\* A thread has waited its whole backoff and the monitor is still Running.
C6_Witness ==
  \E t \in Threads : pc[t] = "backoff" /\ sleepLeft[t] = 0 /\ is_running

\* C7: a cycle whose feed call failed is skipped: it neither rotates nor
\* clears the two generations, and it ends in the backoff wait.
C7_FeedFailureSkipsCycle ==
  [][\A t \in Threads :
       feed_failed[t] =>
         /\ (pc[t] = "rotate" /\ pc'[t] # "rotate") => UNCHANGED storeVars
         /\ (~Sleeping(t) /\ pc'[t] \in {"sleep", "backoff"}) =>
              (pc'[t] = "backoff" /\ sleepLeft'[t] = BackoffSeconds)]_vars

\* C8: a callback that raises is not fatal: the alert loop goes on with the
\* next alert, is_running stays as it is, and the cycle ends in the normal
\* snapshot_interval sleep.
C8_SinkFailureNonFatal ==
  [][\A t \in Threads :
       /\ sinkLog'[t] = Append(sinkLog[t], "raised") =>
            /\ pc'[t] = "deliver"
            /\ alerts'[t] = Tail(alerts[t])
            /\ is_running' = is_running
       /\ (CycleSleep(t) /\ is_running /\ sinkLog[t] # <<>>) =>
            (pc'[t] = "sleep" /\ sleepLeft'[t] = SnapshotInterval)]_vars

\* In one cycle the callback raised for the first alert and the second
\* alert was delivered.
C8_Witness ==
  \E t \in Threads : pc[t] = "deliver" /\ sinkLog[t] = <<"raised", "delivered">>

\* C9: the store holds exactly two generations: each rotation makes previous
\* exactly the prior current and empties current before the cycle's
\* snapshots are recorded, so no snapshot older than the last two rotations
\* is ever retained: every snapshot of current was taken at the latest
\* rotation and every snapshot of previous at the rotation before it.
C9_TwoGenerations ==
  /\ [](/\ \A k \in DOMAIN current_snapshots :
            current_snapshots[k].timestamp = now
        /\ \A k \in DOMAIN previous_snapshots :
            previous_snapshots[k].timestamp = now - 1)
  /\ [][now' # now =>
          /\ previous_snapshots' = current_snapshots
          /\ current_snapshots' = EmptyMap]_vars

\* After three rotations a token is held in both generations.
C9_Witness ==
  /\ now >= 3
  /\ snapshot_lock = None
  /\ DOMAIN previous_snapshots \cap DOMAIN current_snapshots # {}

\* C10: _check_price_changes compares, analyses and raises alerts only for
\* tokens present in both previous_snapshots and current_snapshots.
C10_OnlyComparablePairs ==
  \A t \in Threads :
    pc[t] \in ComparePcs =>
      (common_addresses[t] \cup ({candidate} \ {None}) \cup AlertTokens(t))
        \subseteq (DOMAIN previous_snapshots \cap DOMAIN current_snapshots)

\* An alert was raised for a comparable token while another token, present
\* in current only, was left out of the comparison.
C10_Witness ==
  \E t \in Threads :
    /\ pc[t] = "compare"
    /\ alerts[t] # <<>>
    /\ DOMAIN current_snapshots \ DOMAIN previous_snapshots # {}

\* C11: a comparable pair whose previous price is 0 or negative is skipped:
\* it is neither divided nor made a candidate, the call raises no error and
\* every other pair of the cycle is still evaluated.
C11_ZeroBaselineSkipped ==
  detector.pc # "idle" =>
    /\ detector.pc # "raised"
    /\ \A k \in DOMAIN detector.outcome :
         detector.previous[k] <= 0 => detector.outcome[k] = "skipped"
    /\ detector.pc = "returned" => DOMAIN detector.outcome = Tokens

\* The call has returned after skipping a pair with previous price 0 and
\* finding another pair a candidate.
C11_Witness ==
  /\ detector.pc = "returned"
  /\ \E k, j \in Tokens :
       /\ detector.previous[k] = 0
       /\ detector.outcome[k] = "skipped"
       /\ detector.outcome[j] = "candidate"

\* C12: a pair with previous price > 0 is a candidate exactly when
\* (current - previous) / previous * 100 >= price_increase_threshold, a rise
\* equal to the threshold included.
C12_CandidateIffRiseMeetsThreshold ==
  detector.pc # "idle" =>
    \A k \in DOMAIN detector.outcome :
      detector.previous[k] > 0 =>
        (detector.outcome[k] = "candidate" <=>
           (detector.current[k] - detector.previous[k]) * 100
             >= PriceIncreaseThreshold * detector.previous[k])

\* The states of AnalysisSpec in which _analyze_suspicious_activity has
\* returned for a candidate whose trader fetch gave addresses.
AnalysisDecided ==
  /\ analysis.pc \in {"deliver", "done", "summarised"}
  /\ analysis.trading_addresses # {}

\* C13: a candidate with fewer suspicious addresses than
\* min_suspicious_addresses yields no alert and nothing reaches the callback,
\* although the price threshold was met; an alert carries at least the
\* minimum number of suspicious addresses.
C13_BelowMinimumDiscarded ==
  AnalysisDecided =>
    LET n == Cardinality(SuspiciousProfiles(CollectedProfiles(analysis.fetched)))
    IN  /\ n < MinSuspiciousAddresses => analysis.alerts = <<>>
        /\ \A i \in DOMAIN analysis.alerts :
             Cardinality(analysis.alerts[i].suspicious_addresses)
               >= MinSuspiciousAddresses
        /\ \A i \in DOMAIN analysis.delivered :
             Cardinality(analysis.delivered[i].suspicious_addresses)
               >= MinSuspiciousAddresses

C13_Witness ==
  /\ analysis.pc = "done"
  /\ Cardinality(analysis.trading_addresses) = MaxTraders
  /\ SuspiciousProfiles(CollectedProfiles(analysis.fetched)) = {}
  /\ analysis.alerts = <<>>
  /\ analysis.delivered = <<>>

\* C14: the common tokens of an alert contain neither an excluded base asset
\* nor the candidate token itself, whatever their support.
C14_NoBaseAssetNorCandidate ==
  \A i \in DOMAIN analysis.alerts :
    analysis.alerts[i].common_tokens \cap ({analysis.alerts[i].token} \cup BaseAssets) = {}

\* C15: a token is in the common tokens of an alert only if it has at least
\* the minimum number of supporting addresses and the value those addresses
\* hold in it reaches the minimum total value.
C15_BothMinimumsHold ==
  \A i \in DOMAIN analysis.alerts :
    \A x \in analysis.alerts[i].common_tokens :
      /\ analysis.alerts[i].token_address_count[x] >= MinCommonAddresses
      /\ analysis.alerts[i].token_address_count[x] * analysis.balance_usd
           >= MinCommonValue

\* C16: the common tokens of an alert are computed from the suspicious
\* profiles only: the count of each token is the number of suspicious
\* addresses that name it.
C16_ClusterOverSuspiciousOnly ==
  \A i \in DOMAIN analysis.alerts :
    LET alert == analysis.alerts[i]
    IN  \A x \in alert.common_tokens :
          alert.token_address_count[x] =
            Cardinality({a \in alert.suspicious_addresses :
                           x \in alert.address_profiles[a].common_tokens})

\* C17: an address is suspicious iff its 7-day count or its 30-day count is
\* below the threshold, and AddressProfile.is_suspicious and
\* AddressAnalyzer.find_suspicious_addresses agree on every profile.
C17_ClassifiersAgree ==
  analysis.pc = "summarised" =>
    LET profiles == CollectedProfiles(analysis.fetched)
    IN  \A a \in DOMAIN profiles :
          LET either == \/ profiles[a].transaction_count_7d < MaxTxCount
                        \/ profiles[a].transaction_count_30d < MaxTxCount
          IN  /\ a \in SuspiciousProfiles(profiles) <=> either
              /\ a \in analysis.summary <=> either

\* C18: an address one of whose fetches (7-day count, 30-day count, token
\* list) failed is skipped: it has no profile in the alert, is not among the
\* suspicious addresses and adds to the count of no common token.
C18_FailedFetchSkipped ==
  \A i \in DOMAIN analysis.alerts :
    LET alert == analysis.alerts[i]
    IN  \A a \in DOMAIN analysis.fetched :
          LET f == analysis.fetched[a]
          IN  (~f.tx7d.ok \/ ~f.tx30d.ok \/ ~f.token_list.ok) =>
                /\ a \notin DOMAIN alert.address_profiles
                /\ a \notin alert.suspicious_addresses

\* C19: end to end, a token seen in two consecutive cycles with a rise of at
\* least the threshold is analysed, and when at least
\* min_suspicious_addresses of its traders are suspicious and a token U
\* (neither a base asset nor the candidate) is named by at least the minimum
\* number of those suspicious addresses with enough value, exactly one alert
\* for the token is delivered and its common tokens contain U.
C19_EndToEndAlert ==
  (/\ analysis.pc \in {"done", "summarised"}
   /\ (analysis.current - analysis.previous) * 100
        >= PriceIncreaseThreshold * analysis.previous) =>
    LET profiles == CollectedProfiles(analysis.fetched)
        suspicious == SuspiciousProfiles(profiles)
        others == AnalysisTokens \ ({CandidateToken} \cup BaseAssets)
        support(x) == {a \in suspicious : x \in profiles[a].common_tokens}
    IN  /\ analysis.analysed
        /\ \A x \in others :
             (/\ Cardinality(suspicious) >= MinSuspiciousAddresses
              /\ Cardinality(support(x)) >= MinCommonAddresses
              /\ Cardinality(support(x)) * analysis.balance_usd >= MinCommonValue) =>
               /\ Len(analysis.delivered) = 1
               /\ analysis.delivered[1].token = CandidateToken
               /\ x \in analysis.delivered[1].common_tokens

\* C20: _check_qualification reports a token as qualified iff one of the top
\* common tokens of the analysis result, other than the target token, SOL,
\* USDC, USDT and the entries recognised as SOL, is held by at least 5 of
\* the analysed holders with a total value of at least 300,000 USD.
C20_QualifiedIffFiveHoldersAnd300k ==
  qualifier.pc = "returned" =>
    (qualifier.result <=>
       \E x \in DOMAIN qualifier.top_common_tokens :
         /\ x \notin {"T", SolMint, "USDC", "USDT"} \cup SolFormatted
         /\ qualifier.top_common_tokens[x].holder_count >= 5
         /\ qualifier.top_common_tokens[x].total_value >= 300000)

C20_Witness ==
  /\ qualifier.pc = "returned"
  /\ qualifier.result
  /\ "U" \in DOMAIN qualifier.top_common_tokens
  /\ qualifier.top_common_tokens["U"].holder_count = 5
  /\ qualifier.top_common_tokens["U"].total_value = 300000
  /\ \E x \in {"T", "USDC", SolMint} \cap qualifier.examined :
       /\ qualifier.top_common_tokens[x].holder_count = 5
       /\ qualifier.top_common_tokens[x].total_value = 300000

\* C20 as the module's description states it: qualified iff such a token is
\* held by at least 5 holders with a total value of more than 100,000 USD.
C20_QualifiedIffFiveHoldersAnd100k ==
  qualifier.pc = "returned" =>
    (qualifier.result <=>
       \E x \in DOMAIN qualifier.top_common_tokens :
         /\ x \notin {"T", SolMint, "USDC", "USDT"} \cup SolFormatted
         /\ qualifier.top_common_tokens[x].holder_count >= 5
         /\ qualifier.top_common_tokens[x].total_value > 100000)

\* C21: no cluster of the holder analysis counts native SOL or an excluded
\* stablecoin among its common tokens or in its cluster score.
C21_ClustersExcludeBaseAssets ==
  cluster.pc = "returned" =>
    \A c \in cluster.clusters \cup cluster.large_clusters :
      /\ c.common_tokens \cap ({NativeSolKey} \cup holder_excluded_tokens) = {}
      /\ c.cluster_score =
           Cardinality(c.addresses)
             * Cardinality(c.common_tokens \ ({NativeSolKey} \cup holder_excluded_tokens))

\* C25: a get_status call never observes a rotation in progress: what it
\* reads under snapshot_lock are the sizes of the two generations as the
\* last finished rotation (with all of its recordings) left them.
C25_RotationAtomicForReaders ==
  \A i \in DOMAIN rotation.status :
    LET st == rotation.status[i]
    IN  /\ ~st.mid_cycle
        /\ st.current_tokens = Cardinality(st.boundary[2])
        /\ rotation.rpc = "idle" =>
             st.previous_tokens = Cardinality(st.boundary[1])

C25_Witness ==
  /\ rotation.rpc = "idle"
  /\ rotation.pc = "acquire"
  /\ Len(rotation.status) = 1
  /\ rotation.status[1].current_tokens = 1
  /\ rotation.status[1].previous_tokens = MaxTokens
  /\ rotation.lock = FreeLock

\* C26: of interleaved start_monitoring calls on a stopped monitor at most
\* one returns True and at most one cycle-driver thread is spawned.
C26_AtMostOneStart ==
  /\ Cardinality({c \in Callers : starters.success[c]}) <= 1
  /\ Cardinality(starters.spawned) <= 1

\* C27: once stop_analysis has returned success, the run it stopped starts
\* the analysis of no further token and pushes no further report.
C27_StopEndsRun ==
  ~rape.started_after_stop /\ ~rape.pushed_after_stop

\* C28: no cycle-driver thread fetches traders or profiles addresses while
\* it holds snapshot_lock.
C28_NoAnalysisUnderLock ==
  \A t \in Threads :
    pc[t] \in {"traders", "submit", "collect"} => snapshot_lock # t

\* C22: the ordered common-token list of an alert is a function of the
\* profiles alone: whatever order the workers completed in, it is the list
\* obtained when the profiles are collected in ascending address order.
C22_CommonTokensOrderIndependent ==
  (collect.pc = "returned" /\ collect.alerts # <<>>) =>
    collect.alerts[1].common_tokens =
      LET ascending == SelectSeq([a \in 1..MaxTraders |-> a],
                                 LAMBDA a : collect.results[a].ok)
          listed == common_tokens_list(ascending, collect.results, MinCommonAddresses)
      IN  SubSeq(listed, 1, Min({CommonTokenLimit, Len(listed)}))

\* C23: the suspicious set and the alert / no-alert decision are those of the
\* per-address results, whatever order the workers completed in.
C23_PartitionOrderIndependent ==
  LET suspects == {a \in DOMAIN collect.results :
                     collect.results[a].ok /\ is_suspicious(collect.results[a])}
  IN  /\ collect.pc \in {"check", "returned"} =>
           /\ Range(collect.suspicious_addresses) = suspects
           /\ Len(collect.suspicious_addresses) = Cardinality(suspects)
      /\ collect.pc = "returned" =>
           (collect.alerts # <<>> <=> EnoughSuspicious(Cardinality(suspects)))

\* A run whose workers did not complete in address order, with a suspicious
\* and a non-suspicious profile, decided.
C23_Witness ==
  /\ collect.pc = "returned"
  /\ Len(collect.address_profiles) = MaxTraders
  /\ collect.address_profiles[1] > collect.address_profiles[2]
  /\ Len(collect.suspicious_addresses) = 2
  /\ collect.alerts # <<>>

\* C24: the common-token computation has run only for a candidate whose
\* suspicious set reaches min_suspicious_addresses.
C24_ClusterOnlyAfterMinCheck ==
  collect.pc \in {"partition", "check", "returned"} =>
    Cardinality({a \in DOMAIN collect.results :
                   collect.results[a].ok /\ is_suspicious(collect.results[a])})
      >= MinSuspiciousAddresses


\* C29: when a token other than the target and the excluded assets is held
\* by at least min_holders analysed addresses with a total value of at least
\* min_total_value, the screening test returns True, however many tokens
\* rank ahead of it.
C29_QualifyingHoldingIsSeen ==
  holdings.pc = "returned" =>
    ((\E k \in DOMAIN holdings.token_holders :
        /\ ~Skipped(holdings.token_holders[k].token_addr)
        /\ Qualifies(holdings.token_holders[k]))
      => holdings.result = TRUE)


\* C30: a session is owned by at most one caller at a time: no two callers
\* between _get_or_create_session and _return_session hold the same session,
\* a held session is not in the pool, the pool holds no session twice, every
\* caller hands its session to _return_session exactly once (also when its
\* request failed), and the limited pool never holds more sessions than its
\* limit.
C30_SessionOwnedByOneCaller ==
  sessions.pc = "running" =>
    LET holding == {c \in PoolCallers : sessions.at[c] \in {"request", "finally"}}
    IN  /\ \A c \in holding : sessions.held[c] # NoSession
        /\ \A c, d \in holding : c # d => sessions.held[c] # sessions.held[d]
        /\ \A c \in holding : sessions.held[c] \notin Range(sessions.session_pool)
        /\ \A j, k \in DOMAIN sessions.session_pool :
             j # k => sessions.session_pool[j] # sessions.session_pool[k]
        /\ \A c \in PoolCallers :
             sessions.returns[c] = IF sessions.at[c] = "done" THEN 1 ELSE 0
        /\ sessions.limited => Len(sessions.session_pool) <= SessionPoolLimit

\* Every caller held a session of its own at the same time, one request
\* failed, all have returned, and the limited pool is full.
C30_Witness ==
  /\ sessions.pc = "running"
  /\ sessions.limited
  /\ \A c \in PoolCallers : sessions.at[c] = "done"
  /\ \E c \in PoolCallers : sessions.failed[c]
  /\ sessions.created = MaxPoolCallers
  /\ Len(sessions.session_pool) = SessionPoolLimit

====
